---- MODULE Spec2Model ----
(***************************************************************************)
(* The LiveKit room/session gateway: the two variants of the Express       *)
(* server (src/index.js and src/unnamed/part_000), their in-memory host    *)
(* map roomHosts and their request handlers.  A handler runs to completion *)
(* between two awaits (the Node.js event loop), so every action below is   *)
(* one synchronous segment of a handler: from the arrival of the request,  *)
(* or from the completion of the awaited collaborator call, up to the next *)
(* await or the response.                                                  *)
(***************************************************************************)
EXTENDS Integers, FiniteSets, Sequences, TLC

\* Number of requests the server handles concurrently (slots are reused).
NReq == 2

\* waitForRoomDeletion's default maxTries.
maxTries == 10

Reqs == 1..NReq

\* The two programs of the repository.
Variants == {"index", "part_000"}

\* A field that is missing from the JSON body.
Undefined == "undefined"

\* Room names a client can send.  "toString" is a member of Object.prototype,
\* which the object literal `{}` of roomHosts inherits from.
Rooms == {"alpha", "toString"}
Identities == {"u1", "u2"}

\* Names a client sends to POST /room: the handler only tests the name for
\* emptiness and passes it on, so one proper name stands for all.
RoomNames == {"alpha"}
FileNames == {"meeting1"}
EgressIds == {"EG_1"}

\* Values of a body field: a proper string, the empty string, or missing.
ArgsOf(S) == S \cup {"", Undefined}

\* JavaScript's `!v` for the values a body field takes here.
Falsy(v) == v \in {"", Undefined}

\* roomHosts holds no own property for a room.
Absent == "absent"

\* What `roomHosts[room]` evaluates to when only Object.prototype has the key.
Inherited == "inherited"

\* Keys every object literal inherits from Object.prototype.
ProtoKeys == {"toString"}

\* The expression roomHosts[room]: the own property, else the inherited
\* member, else undefined.
Lookup(h, room) ==
    IF h[room] # Absent THEN h[room]
    ELSE IF room \in ProtoKeys THEN Inherited
    ELSE Undefined

\* JavaScript's `!roomHosts[room]`: identities stored are non-empty strings,
\* an inherited member is a function; both are truthy.
NoHost(h, room) == Lookup(h, room) = Undefined

\* variant, roomHosts and req are the program's state.  seen is a history
\* variable: per room, "unseen" until a token has been issued for it
\* ("served") or an EndRoom has run its deletion for it ("ended").
\* provisioned is a history variable too: the rooms for which a CreateRoom
\* has succeeded.
VARIABLES variant, roomHosts, req, seen, provisioned

vars == <<variant, roomHosts, req, seen, provisioned>>

\* A request slot with no request in it.
IdleReq ==
    [op |-> "none", pc |-> "idle",
     name |-> Undefined, room |-> Undefined, identity |-> Undefined,
     filename |-> Undefined, egressId |-> Undefined,
     role |-> "none", status |-> 0, exists |-> FALSE, rooms |-> "none",
     i |-> 0, calls |-> 0, first |-> FALSE, claimed |-> FALSE]

Ops == {"none", "room", "token", "room-exists", "start-egress", "stop-egress", "end-room"}

Pcs == {"idle", "createRoom", "toJwt", "listRooms", "startEgress", "stopEgress",
        "deleteRoom", "pollList", "pollDelay", "done"}

TypeOK ==
    /\ variant \in Variants
    /\ roomHosts \in [Rooms -> Identities \cup {Absent}]
    /\ seen \in [Rooms -> {"unseen", "served", "ended"}]
    /\ provisioned \subseteq Rooms
    /\ \A r \in Reqs :
        /\ req[r].op \in Ops
        /\ req[r].pc \in Pcs
        /\ req[r].role \in {"none", "participant", "host"}
        /\ req[r].status \in {0, 200, 400, 403, 500}
        /\ req[r].exists \in BOOLEAN
        /\ req[r].rooms \in {"none", "rejected", "empty", "nonempty"}
        /\ req[r].first \in BOOLEAN
        /\ req[r].claimed \in BOOLEAN
        /\ req[r].i \in 0..maxTries
        /\ req[r].calls \in 0..(maxTries + 1)

Init ==
    /\ variant \in Variants
    /\ roomHosts = [k \in Rooms |-> Absent]
    /\ req = [r \in Reqs |-> IdleReq]
    /\ seen = [k \in Rooms |-> "unseen"]
    /\ provisioned = {}

\* History: a token was issued for room k.
Served(k) == [seen EXCEPT ![k] = IF @ = "unseen" THEN "served" ELSE @]

\* A slip: the response is sent but the handler does not return.
Respond_NoReturn(q, s) == [q EXCEPT !.status = s]

\* res.status(s).json(..): the handler's response; the handler is over.
Respond(q, s) == [q EXCEPT !.pc = "done", !.status = s]

\* The handler suspends on an awaited collaborator call.
Await(q, call) == [q EXCEPT !.pc = call, !.calls = @ + 1]

(***************************************************************************)
(* POST /room                                                              *)
(***************************************************************************)
\* A slip: `name === undefined`, which lets the empty name through.
NameMissing_OnlyUndefined(name) == name = Undefined

\* `!name`
NameMissing(name) == Falsy(name)

CreateRoom(r, name) ==
    /\ req[r].pc = "idle"
    /\ LET q == [IdleReq EXCEPT !.op = "room", !.name = name] IN
       req' = [req EXCEPT ![r] =
                  IF NameMissing(name) THEN Respond(q, 400)
                  ELSE Await(q, "createRoom")]
    /\ UNCHANGED <<variant, roomHosts, seen, provisioned>>

CreateRoomReturns(r, ok) ==
    /\ req[r].pc = "createRoom"
    /\ req' = [req EXCEPT ![r] = Respond(@, IF ok THEN 200 ELSE 500)]
    /\ provisioned' = IF ok THEN provisioned \cup {req[r].name} ELSE provisioned
    /\ UNCHANGED <<variant, roomHosts, seen>>

(***************************************************************************)
(* POST /token                                                             *)
(***************************************************************************)
\* A slip: `else if (roomHosts[room])`, any request for a room that has a
\* host is given role "host".
ElectRole_AnyHost(h, room, identity) ==
    IF NoHost(h, room) THEN "host"
    ELSE IF Lookup(h, room) # Undefined THEN "host"
    ELSE "participant"

\* A slip: the `else if` branch is missing, the host gets "participant" on
\* its second request.
ElectRole_NoReclaim(h, room, identity) ==
    IF NoHost(h, room) THEN "host" ELSE "participant"

\* The role-election branch: the role assigned and the host map after it.
ElectRole(h, room, identity) ==
    IF NoHost(h, room) THEN "host"
    ELSE IF Lookup(h, room) = identity THEN "host"
    ELSE "participant"

\* A slip: the first request is told "host" but the record is not written.
ElectHosts_NoWrite(h, room, identity) == h

\* A slip: the record is written whether or not the room has a host.
ElectHosts_Overwrite(h, room, identity) == [h EXCEPT ![room] = identity]

ElectHosts(h, room, identity) ==
    IF NoHost(h, room) THEN [h EXCEPT ![room] = identity] ELSE h

\* index.js signs synchronously inside the try block that also holds the
\* election: the response follows in the same segment.  part_000 elects
\* first and then awaits accessToken.toJwt().
\* The field `claimed` is history as well: this request wrote the record.
\* History, taken when a token request arrives: no token has been issued
\* for the room, no EndRoom has deleted it and no earlier token request for
\* it is still being signed, so every earlier token request for it failed.
NoEarlierToken(room) ==
    /\ seen[room] = "unseen"
    /\ \A o \in Reqs : ~(req[o].pc = "toJwt" /\ req[o].room = room)

IssueToken(r, room, identity, signOk) ==
    /\ req[r].pc = "idle"
    /\ LET q == [IdleReq EXCEPT !.op = "token", !.room = room, !.identity = identity] IN
       IF Falsy(room) \/ Falsy(identity)
       THEN /\ req' = [req EXCEPT ![r] = Respond(q, 400)]
            /\ UNCHANGED <<roomHosts, seen>>
       ELSE LET e == [q EXCEPT !.role = ElectRole(roomHosts, room, identity),
                               !.first = NoEarlierToken(room),
                               !.claimed = ElectHosts(roomHosts, room, identity)
                                               # roomHosts] IN
            /\ roomHosts' = ElectHosts(roomHosts, room, identity)
            /\ IF variant = "index"
               THEN /\ req' = [req EXCEPT ![r] =
                                  Respond([e EXCEPT !.calls = 1],
                                          IF signOk THEN 200 ELSE 500)]
                    /\ seen' = IF signOk THEN Served(room) ELSE seen
               ELSE /\ req' = [req EXCEPT ![r] = Await(e, "toJwt")]
                    /\ UNCHANGED seen
    /\ UNCHANGED <<variant, provisioned>>

ToJwtReturns(r, ok) ==
    /\ req[r].pc = "toJwt"
    /\ req' = [req EXCEPT ![r] = Respond(@, IF ok THEN 200 ELSE 500)]
    /\ seen' = IF ok THEN Served(req[r].room) ELSE seen
    /\ UNCHANGED <<variant, roomHosts, provisioned>>

(***************************************************************************)
(* POST /room-exists                                                       *)
(***************************************************************************)
RoomExists(r, room) ==
    /\ req[r].pc = "idle"
    /\ LET q == [IdleReq EXCEPT !.op = "room-exists", !.room = room] IN
       req' = [req EXCEPT ![r] =
                  IF Falsy(room) THEN Respond(q, 200)
                  ELSE Await(q, "listRooms")]
    /\ UNCHANGED <<variant, roomHosts, seen, provisioned>>

\* The local `rooms` after the awaited listRooms: n is the length of the
\* listing; ok = FALSE is a rejected call.
Listing(ok, n) == IF ~ok THEN "rejected" ELSE IF n = 0 THEN "empty" ELSE "nonempty"

\* A slip: `rooms.length >= 0`.
ExistsFlag_AlsoEmpty(ok, n) == IF ok THEN n >= 0 ELSE FALSE

\* `rooms.length > 0` in the try branch, `false` in the catch branch.
ExistsFlag(ok, n) == IF ok THEN n > 0 ELSE FALSE

ListRoomsReturns(r, ok, n) ==
    /\ req[r].pc = "listRooms"
    /\ req' = [req EXCEPT ![r] =
                  Respond([@ EXCEPT !.exists = ExistsFlag(ok, n),
                                    !.rooms = Listing(ok, n)], 200)]
    /\ UNCHANGED <<variant, roomHosts, seen, provisioned>>

(***************************************************************************)
(* POST /start-egress and POST /stop-egress (part_000 only)                *)
(***************************************************************************)
StartEgress(r, room, filename) ==
    /\ variant = "part_000"
    /\ req[r].pc = "idle"
    /\ LET q == [IdleReq EXCEPT !.op = "start-egress", !.room = room,
                                !.filename = filename] IN
       req' = [req EXCEPT ![r] =
                  IF Falsy(room) \/ Falsy(filename) THEN Respond(q, 400)
                  ELSE Await(q, "startEgress")]
    /\ UNCHANGED <<variant, roomHosts, seen, provisioned>>

StartEgressReturns(r, ok) ==
    /\ req[r].pc = "startEgress"
    /\ req' = [req EXCEPT ![r] = Respond(@, IF ok THEN 200 ELSE 500)]
    /\ UNCHANGED <<variant, roomHosts, seen, provisioned>>

StopEgress(r, egressId) ==
    /\ variant = "part_000"
    /\ req[r].pc = "idle"
    /\ LET q == [IdleReq EXCEPT !.op = "stop-egress", !.egressId = egressId] IN
       req' = [req EXCEPT ![r] =
                  IF Falsy(egressId) THEN Respond(q, 400)
                  ELSE Await(q, "stopEgress")]
    /\ UNCHANGED <<variant, roomHosts, seen, provisioned>>

StopEgressReturns(r, ok) ==
    /\ req[r].pc = "stopEgress"
    /\ req' = [req EXCEPT ![r] = Respond(@, IF ok THEN 200 ELSE 500)]
    /\ UNCHANGED <<variant, roomHosts, seen, provisioned>>

(***************************************************************************)
(* POST /end-room                                                          *)
(***************************************************************************)
\* A slip: index.js without its host check.
EndRoomRefusal_NoHostCheck(v, h, room, identity) ==
    IF Falsy(room) \/ (v = "index" /\ Falsy(identity)) THEN 400 ELSE 0

\* The checks before deleteRoom is called: the status they respond with, or
\* 0 when the handler goes on to the call.  Only index.js requires the
\* identity and compares it with the recorded host.
EndRoomRefusal(v, h, room, identity) ==
    IF v = "index"
    THEN IF Falsy(room) \/ Falsy(identity) THEN 400
         ELSE IF Lookup(h, room) # identity THEN 403
         ELSE 0
    ELSE IF Falsy(room) THEN 400 ELSE 0

EndRoom(r, room, identity) ==
    /\ req[r].pc = "idle"
    /\ LET q == [IdleReq EXCEPT !.op = "end-room", !.room = room,
                                !.identity = identity]
           s == EndRoomRefusal(variant, roomHosts, room, identity) IN
       req' = [req EXCEPT ![r] =
                  IF s # 0 THEN Respond(q, s) ELSE Await(q, "deleteRoom")]
    /\ UNCHANGED <<variant, roomHosts, seen, provisioned>>

\* A slip: the whole map is reset.
DeleteHost_All(h, room) == [k \in Rooms |-> Absent]

\* `delete roomHosts[room]` (index.js), `if (roomHosts[room]) delete
\* roomHosts[room]` (part_000): both remove the own property only.
DeleteHost(h, room) == [h EXCEPT ![room] = Absent]

\* A slip: `i <= maxTries`.
LoopTest_OffByOne(i) == i <= maxTries

\* The loop test of waitForRoomDeletion: `i < maxTries`.
LoopTest(i) == i < maxTries

\* A slip: the record is removed before deleteRoom is awaited, so it is gone
\* also when the call is rejected.
HostsAfterDeleteRoom_Eager(h, room, ok) == DeleteHost(h, room)

\* The host map after `await roomService.deleteRoom(room)`: the removal is
\* the next statement of the try block, a rejection jumps over it.
HostsAfterDeleteRoom(h, room, ok) == IF ok THEN DeleteHost(h, room) ELSE h

\* deleteRoom resolved or rejected.  index.js goes on to the first listing of
\* waitForRoomDeletion (i = 0 < maxTries); part_000 responds.
DeleteRoomReturns(r, ok) ==
    /\ req[r].pc = "deleteRoom"
    /\ roomHosts' = HostsAfterDeleteRoom(roomHosts, req[r].room, ok)
    /\ IF ~ok
       THEN /\ req' = [req EXCEPT ![r] = Respond(@, 500)]
            /\ UNCHANGED seen
       ELSE /\ seen' = [seen EXCEPT ![req[r].room] = "ended"]
            /\ req' = [req EXCEPT ![r] =
                          IF variant = "index"
                          THEN IF LoopTest(0)
                               THEN Await([@ EXCEPT !.i = 0], "pollList")
                               ELSE Respond(@, 200)
                          ELSE Respond(@, 200)]
    /\ UNCHANGED <<variant, provisioned>>

\* A listing of waitForRoomDeletion resolved with n rooms, or rejected: the
\* rejection leaves waitForRoomDeletion and lands in the handler's catch.
PollListReturns(r, ok, n) ==
    /\ req[r].pc = "pollList"
    /\ LET q == [req[r] EXCEPT !.rooms = Listing(ok, n)] IN
       req' = [req EXCEPT ![r] =
                  IF ~ok THEN Respond(q, 500)
                  ELSE IF n = 0 THEN Respond(q, 200)
                  ELSE [q EXCEPT !.pc = "pollDelay"]]
    /\ UNCHANGED <<variant, roomHosts, seen, provisioned>>

\* The delayMs timer fired: i++, then the next listing or `return false`.
PollDelayElapses(r) ==
    /\ req[r].pc = "pollDelay"
    /\ req' = [req EXCEPT ![r] =
                  IF LoopTest(req[r].i + 1)
                  THEN Await([@ EXCEPT !.i = @ + 1], "pollList")
                  ELSE Respond([@ EXCEPT !.i = @ + 1], 200)]
    /\ UNCHANGED <<variant, roomHosts, seen, provisioned>>

(***************************************************************************)
(* Forgetting a finished request: its slot takes the next request.         *)
(***************************************************************************)
Forget(r) ==
    /\ req[r].pc = "done"
    /\ req' = [req EXCEPT ![r] = IdleReq]
    /\ UNCHANGED <<variant, roomHosts, seen, provisioned>>

\* One synchronous segment of one handler runs.
Serve ==
    \/ \E r \in Reqs, name \in ArgsOf(RoomNames) : CreateRoom(r, name)
    \/ \E r \in Reqs, ok \in BOOLEAN : CreateRoomReturns(r, ok)
    \/ \E r \in Reqs, room \in ArgsOf(Rooms), identity \in ArgsOf(Identities),
          signOk \in BOOLEAN : IssueToken(r, room, identity, signOk)
    \/ \E r \in Reqs, ok \in BOOLEAN : ToJwtReturns(r, ok)
    \/ \E r \in Reqs, room \in ArgsOf(Rooms) : RoomExists(r, room)
    \/ \E r \in Reqs, ok \in BOOLEAN, n \in 0..1 : ListRoomsReturns(r, ok, n)
    \/ \E r \in Reqs, room \in ArgsOf(Rooms), filename \in ArgsOf(FileNames) :
          StartEgress(r, room, filename)
    \/ \E r \in Reqs, ok \in BOOLEAN : StartEgressReturns(r, ok)
    \/ \E r \in Reqs, egressId \in ArgsOf(EgressIds) : StopEgress(r, egressId)
    \/ \E r \in Reqs, ok \in BOOLEAN : StopEgressReturns(r, ok)
    \/ \E r \in Reqs, room \in ArgsOf(Rooms), identity \in ArgsOf(Identities) :
          EndRoom(r, room, identity)
    \/ \E r \in Reqs, ok \in BOOLEAN : DeleteRoomReturns(r, ok)
    \/ \E r \in Reqs, ok \in BOOLEAN, n \in 0..1 : PollListReturns(r, ok, n)
    \/ \E r \in Reqs : PollDelayElapses(r)

Next ==
    \/ Serve
    \/ \E r \in Reqs : Forget(r)

Spec == Init /\ [][Next]_vars

\* The call or timer that request r awaits completes and its handler runs
\* its next segment.
Completes(r) ==
    \/ \E ok \in BOOLEAN : CreateRoomReturns(r, ok)
    \/ \E ok \in BOOLEAN : ToJwtReturns(r, ok)
    \/ \E ok \in BOOLEAN, n \in 0..1 : ListRoomsReturns(r, ok, n)
    \/ \E ok \in BOOLEAN : StartEgressReturns(r, ok)
    \/ \E ok \in BOOLEAN : StopEgressReturns(r, ok)
    \/ \E ok \in BOOLEAN : DeleteRoomReturns(r, ok)
    \/ \E ok \in BOOLEAN, n \in 0..1 : PollListReturns(r, ok, n)
    \/ PollDelayElapses(r)

\* Every collaborator call a request awaits eventually resolves or rejects
\* and every timer fires: the event loop then runs the waiting handler.
\* The runs in which no slot is reused, so that each slot carries one
\* request from its arrival to its response.
FairSpec == Init /\ [][Serve]_vars /\ \A r \in Reqs : WF_vars(Completes(r))

(***************************************************************************)
(* Steps of a request, as seen in the variables.                           *)
(***************************************************************************)
\* Request r arrives and its handler for `o` runs its first segment.
Arrives(r, o) == req[r].pc = "idle" /\ req'[r].op = o

\* The handler of r sends its response in this step.
Responds(r) == req[r].pc # "done" /\ req'[r].pc = "done"

\* A token request with both fields present arrives.
TokenArrives(r) ==
    /\ Arrives(r, "token")
    /\ ~Falsy(req'[r].room)
    /\ ~Falsy(req'[r].identity)

\* The handler of r responds with {token, role}.
TokenIssued(r) ==
    /\ Responds(r)
    /\ req'[r].op = "token"
    /\ req'[r].status = 200

\* The awaited deleteRoom of r resolved: the handler goes on to the removal
\* of the host record.
Deleted(r) ==
    /\ req[r].pc = "deleteRoom"
    /\ req'[r].pc # "deleteRoom"
    /\ req'[r].status # 500

\* A finished token request that was answered {token, role}.
IsToken(r, room, identity, role) ==
    /\ req[r].op = "token"
    /\ req[r].pc = "done"
    /\ req[r].status = 200
    /\ req[r].room = room
    /\ req[r].identity = identity
    /\ req[r].role = role

(***************************************************************************)
(* C1: for a room not seen before, the first IssueToken request that is    *)
(* answered with a token (every earlier one failed) has role "host", and   *)
(* the host record equals its identity from then on until an EndRoom       *)
(* removes it.                                                             *)
(***************************************************************************)
C1_FirstTokenIsHost ==
    [][/\ \A r \in Reqs :
            (TokenIssued(r) /\ req'[r].first) =>
                /\ req'[r].role = "host"
                /\ seen'[req'[r].room] # "ended" =>
                       roomHosts'[req'[r].room] = req'[r].identity
       /\ \A k \in Rooms :
            (seen[k] = "served" /\ seen'[k] = "served") =>
                roomHosts'[k] = roomHosts[k]]_vars

(***************************************************************************)
(* C2: a token request for a room whose host record is h, by an identity   *)
(* other than h, is assigned role "participant", is answered with that     *)
(* role, and leaves the host map as it was; no step other than an          *)
(* EndRoom's removal changes the record h.                                 *)
(***************************************************************************)
C2_OtherIsParticipant ==
    [][/\ \A r \in Reqs :
            (/\ TokenArrives(r)
             /\ roomHosts[req'[r].room] # Absent
             /\ roomHosts[req'[r].room] # req'[r].identity) =>
                /\ req'[r].role = "participant"
                /\ roomHosts' = roomHosts
       /\ \A r \in Reqs :
            (req[r].pc = "toJwt" /\ TokenIssued(r)) => req'[r].role = req[r].role
       /\ \A k \in Rooms :
            (roomHosts[k] # Absent /\ roomHosts'[k] # roomHosts[k]) =>
                \E d \in Reqs : Deleted(d) /\ req[d].room = k]_vars

C2_Witness ==
    \E r \in Reqs, k \in Rooms, a \in Identities :
        /\ IsToken(r, k, a, "participant")
        /\ roomHosts[k] \in Identities \ {a}

(***************************************************************************)
(* C3: a token request by the recorded host h of its room is assigned and  *)
(* answered role "host" and leaves the whole host map unchanged, however   *)
(* often it is repeated.                                                   *)
(***************************************************************************)
C3_HostIdempotent ==
    [][/\ \A r \in Reqs :
            (TokenArrives(r) /\ roomHosts[req'[r].room] = req'[r].identity) =>
                /\ req'[r].role = "host"
                /\ roomHosts' = roomHosts
       /\ \A r \in Reqs :
            (TokenIssued(r) /\ roomHosts[req'[r].room] = req'[r].identity
                            /\ seen[req'[r].room] # "ended") =>
                req'[r].role = "host"]_vars

C3_Witness ==
    \E r1, r2 \in Reqs, k \in Rooms, a \in Identities :
        /\ r1 # r2
        /\ IsToken(r1, k, a, "host")
        /\ IsToken(r2, k, a, "host")
        /\ roomHosts[k] = a

(***************************************************************************)
(* C4: a room has at most one host identity; a present host record is      *)
(* never changed to another identity: it changes only by the removal of an *)
(* EndRoom for that room, and a record appears only by a token request for *)
(* that room, with that request's identity, when the room has no record.   *)
(***************************************************************************)
C4_HostNeverOverwritten ==
    /\ [](roomHosts \in [Rooms -> Identities \cup {Absent}])
    /\ [][\A k \in Rooms :
            /\ roomHosts[k] # Absent =>
                 \/ roomHosts'[k] = roomHosts[k]
                 \/ /\ roomHosts'[k] = Absent
                    /\ \E d \in Reqs : Deleted(d) /\ req[d].room = k
            /\ (roomHosts[k] = Absent /\ roomHosts'[k] # Absent) =>
                 \E r \in Reqs :
                    /\ TokenArrives(r)
                    /\ req'[r].room = k
                    /\ req'[r].identity = roomHosts'[k]]_vars

C4_Witness ==
    \E k \in Rooms : seen[k] = "ended" /\ roomHosts[k] # Absent

(***************************************************************************)
(* C5: the removal step of an EndRoom leaves the room without a host       *)
(* record, and a token request that arrives for an ended room that has no  *)
(* host record is assigned role "host" and recorded as host.               *)
(***************************************************************************)
C5_ElectionResets ==
    [][/\ \A d \in Reqs : Deleted(d) => roomHosts'[req[d].room] = Absent
       /\ \A r \in Reqs :
            (/\ TokenArrives(r)
             /\ seen[req'[r].room] = "ended"
             /\ roomHosts[req'[r].room] = Absent) =>
                /\ req'[r].role = "host"
                /\ roomHosts'[req'[r].room] = req'[r].identity]_vars

(***************************************************************************)
(* C6: two token requests with distinct identities for the same brand-new  *)
(* room (no EndRoom has run its removal for it) are never both assigned    *)
(* role "host": the check and the write of the host record are one         *)
(* synchronous segment, so the later request observes the record the       *)
(* earlier one wrote.                                                      *)
(***************************************************************************)
BothHost ==
    \E r1, r2 \in Reqs, k \in Rooms :
        /\ r1 # r2
        /\ req[r1].op = "token" /\ req[r1].room = k /\ req[r1].role = "host"
        /\ req[r2].op = "token" /\ req[r2].room = k /\ req[r2].role = "host"
        /\ req[r1].identity # req[r2].identity
        /\ seen[k] # "ended"

C6_NoDoubleHost == ~BothHost

\* The race as claimed: two token requests with distinct identities for the
\* same brand-new room that are in flight together were both assigned role
\* "host".
C6_RaceHappens ==
    \A r1, r2 \in Reqs :
        (/\ r1 # r2
         /\ req[r1].pc = "toJwt" /\ req[r2].pc = "toJwt"
         /\ req[r1].room = req[r2].room
         /\ req[r1].identity # req[r2].identity
         /\ seen[req[r1].room] # "ended") =>
            (req[r1].role = "host" /\ req[r2].role = "host")

\* Two token requests for the same brand-new room, both elected and both
\* awaiting their signature at the same time.
C6_Witness ==
    \E r1, r2 \in Reqs, k \in Rooms :
        /\ req[r1].op = "token" /\ req[r1].pc = "toJwt" /\ req[r1].room = k
        /\ req[r2].op = "token" /\ req[r2].pc = "toJwt" /\ req[r2].room = k
        /\ req[r1].identity # req[r2].identity
        /\ req[r1].role = "host" /\ req[r2].role = "participant"
        /\ roomHosts[k] = req[r1].identity
        /\ seen[k] = "unseen"

(***************************************************************************)
(* C7: RoomExists always answers 200 {exists: b} and never changes the     *)
(* host map; b is false when the room argument is missing (no listing is   *)
(* made) or the listing was rejected, and b is true exactly when the       *)
(* listing returned at least one room.                                     *)
(***************************************************************************)
C7_RoomExistsNeverFails ==
    /\ [](\A r \in Reqs :
            (req[r].op = "room-exists" /\ req[r].pc = "done") =>
                /\ req[r].status = 200
                /\ Falsy(req[r].room) => (~req[r].exists /\ req[r].calls = 0)
                /\ req[r].rooms = "rejected" => ~req[r].exists
                /\ req[r].exists <=> req[r].rooms = "nonempty")
    /\ [][\A r \in Reqs :
            (req'[r].op = "room-exists" /\ req'[r] # req[r]) =>
                roomHosts' = roomHosts]_vars

C7_Witness ==
    \E r1, r2 \in Reqs :
        /\ req[r1].op = "room-exists" /\ req[r1].pc = "done" /\ req[r1].exists
        /\ req[r2].op = "room-exists" /\ req[r2].pc = "done"
        /\ req[r2].rooms = "rejected"
        /\ \E k \in Rooms : roomHosts[k] # Absent

(***************************************************************************)
(* C8: CreateRoom without a name and IssueToken without a room or without  *)
(* an identity (empty or missing) answer 400, make no collaborator call    *)
(* and leave the host map as it was.                                       *)
(***************************************************************************)
C8_InvalidArgument ==
    [][\A r \in Reqs :
          /\ (Arrives(r, "room") /\ Falsy(req'[r].name)) =>
                /\ Responds(r)
                /\ req'[r].status = 400
                /\ req'[r].calls = 0
                /\ roomHosts' = roomHosts
          /\ (Arrives(r, "token") /\ (Falsy(req'[r].room) \/ Falsy(req'[r].identity))) =>
                /\ Responds(r)
                /\ req'[r].status = 400
                /\ req'[r].calls = 0
                /\ roomHosts' = roomHosts]_vars

C8_Witness ==
    \E r1, r2 \in Reqs :
        /\ req[r1].op = "room" /\ req[r1].name = "" /\ req[r1].status = 400
        /\ req[r2].op = "token" /\ req[r2].identity = Undefined
        /\ req[r2].room \in Rooms /\ req[r2].status = 400
        /\ roomHosts[req[r2].room] # Absent

(***************************************************************************)
(* C9: in index.js an EndRoom(room, identity) whose identity is not the    *)
(* recorded host of room (also when room has no record) answers 403,       *)
(* makes no collaborator call and leaves the host map unchanged;           *)
(* deleteRoom is called only by a request whose identity equalled the      *)
(* recorded host at the check.                                             *)
(***************************************************************************)
C9_OnlyHostEndsRoom ==
    [][\A r \in Reqs :
          (variant = "index" /\ Arrives(r, "end-room")) =>
             /\ (/\ ~Falsy(req'[r].room)
                 /\ ~Falsy(req'[r].identity)
                 /\ roomHosts[req'[r].room] # req'[r].identity) =>
                    /\ Responds(r)
                    /\ req'[r].status = 403
                    /\ req'[r].calls = 0
                    /\ roomHosts' = roomHosts
             /\ req'[r].pc = "deleteRoom" =>
                    roomHosts[req'[r].room] = req'[r].identity]_vars

C9_Witness ==
    \E r \in Reqs :
        /\ variant = "index"
        /\ req[r].op = "end-room" /\ req[r].status = 403
        /\ roomHosts[req[r].room] \in Identities \ {req[r].identity}

(***************************************************************************)
(* C10: in index.js an EndRoom whose deleteRoom succeeded answers success, *)
(* whatever the confirmation poll does: the room disappears, it is still   *)
(* listed after all attempts, or a listing is rejected.                    *)
(***************************************************************************)
C10_SuccessWhateverThePoll ==
    \A r \in Reqs :
        (/\ variant = "index"
         /\ req[r].op = "end-room"
         /\ req[r].pc = "done"
         /\ req[r].calls >= 2) => req[r].status = 200

(***************************************************************************)
(* C11: the local state of a room moves between "no host record" and      *)
(* "host record": a record is created by a token request on a room        *)
(* without one, whether or not a CreateRoom for the room has succeeded     *)
(* (the gateway keeps no Provisioned state), it is removed by the removal  *)
(* step of an EndRoom for the room, and no step of CreateRoom, RoomExists, *)
(* StartRecording or StopRecording changes it.                             *)
(***************************************************************************)
\* Some request of one of the operations in `ops` takes a step.
StepOf(ops) == \E r \in Reqs : req'[r] # req[r] /\ req'[r].op \in ops

DeleteFailed(d) ==
    /\ req[d].pc = "deleteRoom"
    /\ Responds(d)
    /\ req'[d].status = 500

C12_FailedDeleteKeepsHost ==
    [][/\ \A d \in Reqs :
            DeleteFailed(d) => roomHosts' = roomHosts
       /\ \A d \in Reqs :
            (req[d].pc = "deleteRoom" /\ req'[d] # req[d]) =>
                (Deleted(d) \/ DeleteFailed(d))
       /\ \A k \in Rooms :
            (roomHosts[k] # Absent /\ roomHosts'[k] = Absent) =>
                \E d \in Reqs : Deleted(d) /\ req[d].room = k]_vars

C12_Witness ==
    \E d1, d2 \in Reqs :
        /\ req[d1].op = "end-room" /\ req[d1].pc = "done"
        /\ req[d1].status = 500 /\ req[d1].calls = 1
        /\ variant = "index" => roomHosts[req[d1].room] = req[d1].identity
        /\ roomHosts[req[d1].room] # Absent
        /\ req[d2].op = "end-room" /\ req[d2].pc = "done" /\ req[d2].status = 500
        /\ req[d2].calls = 1 /\ d1 # d2

(***************************************************************************)
(* C13: a request that is answered with an error (400, 403, 500) has not   *)
(* changed the host map: the step of the answer leaves it as it was and    *)
(* the request has not written a host record before; in particular a       *)
(* token request for a room without a record whose signing fails leaves    *)
(* the room without a record.                                              *)
(***************************************************************************)
C13_ErrorLeavesHostMap ==
    [][\A r \in Reqs :
          (Responds(r) /\ req'[r].status >= 400) =>
              /\ roomHosts' = roomHosts
              /\ ~req'[r].claimed]_vars

(***************************************************************************)
(* C14: in index.js, whenever the removal step of an EndRoom(room,         *)
(* identity) removes a host record, the record it removes is that          *)
(* request's identity.                                                     *)
(***************************************************************************)
C14_RemovesOwnRecordOnly ==
    [][\A d \in Reqs :
          (/\ variant = "index"
           /\ Deleted(d)
           /\ roomHosts[req[d].room] # Absent) =>
              roomHosts[req[d].room] = req[d].identity]_vars

(***************************************************************************)
(* C15: waitForRoomDeletion makes at most maxTries listing calls: it       *)
(* stops (true) at the first listing that returns no room, it returns      *)
(* false after exactly maxTries listings that each returned a room, and    *)
(* the request makes no call after it has finished.                        *)
(***************************************************************************)
\* An EndRoom request of index.js that has entered waitForRoomDeletion.
Polls(r) == variant = "index" /\ req[r].op = "end-room" /\ req[r].calls >= 2

\* The listing calls r has made: all its calls but the deleteRoom.
Listings(r) == req[r].calls - 1

C15_PollIsBounded ==
    /\ [](\A r \in Reqs :
            Polls(r) =>
                /\ Listings(r) <= maxTries
                /\ req[r].pc \in {"pollList", "pollDelay", "done"}
                /\ req[r].pc = "pollList" =>
                       (req[r].i < maxTries /\ Listings(r) = req[r].i + 1)
                /\ req[r].pc = "pollDelay" =>
                       (req[r].rooms = "nonempty" /\ Listings(r) = req[r].i + 1)
                /\ (req[r].pc = "done" /\ req[r].rooms = "empty") =>
                       (req[r].status = 200 /\ Listings(r) = req[r].i + 1)
                /\ (req[r].pc = "done" /\ req[r].rooms = "nonempty") =>
                       (req[r].i = maxTries /\ Listings(r) = maxTries))
    /\ [][\A r \in Reqs :
            req[r].pc = "done" => (req'[r] = req[r] \/ req'[r] = IdleReq)]_vars

\* One poll gave up after maxTries listings, another stopped at an empty
\* listing that was not its first.
C15_Witness ==
    \E r1, r2 \in Reqs :
        /\ Polls(r1) /\ req[r1].pc = "done" /\ req[r1].rooms = "nonempty"
        /\ Listings(r1) = maxTries
        /\ Polls(r2) /\ req[r2].pc = "done" /\ req[r2].rooms = "empty"
        /\ Listings(r2) > 1

(***************************************************************************)
(* C16: no step of CreateRoom, StartRecording, StopRecording or RoomExists *)
(* changes the host map, whether the request succeeds or fails; a step of  *)
(* IssueToken(room, ..) or EndRoom(room, ..) leaves the host record of     *)
(* every other room unchanged.                                             *)
(***************************************************************************)
C16_Frame ==
    [][/\ StepOf({"room", "start-egress", "stop-egress", "room-exists"}) =>
            roomHosts' = roomHosts
       /\ \A r \in Reqs :
            (req'[r] # req[r] /\ req'[r].op \in {"token", "end-room"}) =>
                \A k \in Rooms \ {req'[r].room} : roomHosts'[k] = roomHosts[k]]_vars

\* A room keeps its host while an EndRoom for another room has succeeded
\* and a CreateRoom or a recording request has failed.
C16_Witness ==
    \E r1, r2 \in Reqs, k \in Rooms :
        /\ roomHosts[k] # Absent
        /\ req[r1].op = "end-room" /\ req[r1].status = 200
        /\ req[r1].room \in Rooms \ {k}
        /\ req[r2].op \in {"room", "start-egress", "stop-egress"}
        /\ req[r2].status = 500

(***************************************************************************)
(* C17: a request is answered at most once, and when every call and timer  *)
(* it awaits completes it is answered: a request that has arrived is       *)
(* eventually answered, the polling EndRoom of index.js included.          *)
(***************************************************************************)
C17_ExactlyOneResponse ==
    /\ [][\A r \in Reqs :
            req[r].status # 0 =>
                \/ req'[r] = req[r]
                \/ req'[r] = IdleReq]_vars
    /\ \A r \in Reqs : (req[r].pc # "idle") ~> (req[r].pc = "done")

\* An EndRoom of index.js was answered after its poll ran out.
C17_Witness ==
    \E r \in Reqs :
        /\ Polls(r) /\ req[r].pc = "done" /\ req[r].status = 200
        /\ req[r].i = maxTries

====
